---- MODULE Spec2Model ----
(***************************************************************************)
(* Model of the Hacker News summarizer pipeline:                           *)
(*   fetchHackerNews (src/src/news.ts), generateSingleArticleSummary and   *)
(*   callGeminiAPI (src/src/gemini.ts), postToSlack / postArticleToSlack   *)
(*   (src/src/slack.ts, src/unnamed/part_003) and the orchestrator main    *)
(*   (src/src/gemini.ts:280-298).                                          *)
(* Strings that the code inspects (summary texts) are sequences of         *)
(* one-character strings, so that trim and startsWith are computed.        *)
(***************************************************************************)
EXTENDS Integers, Sequences, FiniteSets, TLC

VARIABLES
    prop,        \* script property ARTICLE_COUNT as stored (input)
    upstream,    \* what the Hacker News API answers in this run (input)
    pc,          \* position of main
    idx,         \* fetchHackerNews: position in targetStoryIds (1-based)
    articles,    \* fetchHackerNews: accumulated NewsArticle list
    summaries,   \* main: results of articles.map(processArticleForSummary)
    i,           \* main: index of the current map / forEach element (1-based)
    log,         \* remote calls and sleeps performed so far, in order
    channel,     \* messages the Slack endpoint accepted, in order
    outcome,     \* "running", "returned" or "thrown"
    result,      \* value returned by main
    kids,        \* fetchCommentsForStory: answers to the comment requests, by position in commentIds (input)
    maxComments, \* fetchCommentsForStory: its maxComments argument (input)
    cpos,        \* fetchCommentsForStory: position in candidateIds (1-based)
    comments,    \* fetchCommentsForStory: accumulated comment texts
    cpc,         \* fetchCommentsForStory: "idle", "loop" or "returned"
    arg,         \* arguments of a single call of one function (input)
    ret          \* what that call did: <<>> before the call

mainVars == <<prop, upstream, pc, idx, articles, summaries, i, log, channel, outcome, result>>

commentVars == <<kids, maxComments, cpos, comments, cpc>>

callVars == <<arg, ret>>

auxVars == <<commentVars, callVars>>

vars == <<mainVars, auxVars>>

----------------------------------------------------------------------------
(* Bounds of the explored inputs *)

MaxIds == 3      \* short upstream ID lists have 0..MaxIds entries
MaxLimit == 3    \* numeric ARTICLE_COUNT values range over -1..MaxLimit
MaxVar == 2      \* the items ranked 1..MaxVar vary; later ranks are valid stories
MaxKids == 3     \* kids lists of up to MaxKids comments vary in full
MaxComments == 2 \* explicit maxComments values range over 0..MaxComments
MaxLen == 4      \* summary texts given to isValidSummary have up to MaxLen characters

----------------------------------------------------------------------------
(* Program constants *)

MAX_STORY_IDS_TO_PROCESS == 30
DEFAULT_ARTICLE_COUNT == 3
DEFAULT_MAX_COMMENTS == 10
GEMINI_DELAY_MS == 1000
DEFAULT_DELAY_MS == 2000

SAFETY_BLOCKED == <<"S", "B", ".">>
GENERATION_FAILED == <<"G", "F", ".">>

SLACK_CHANNEL_ID == "C0123"
SLACK_BOT_TOKEN == "xoxb-token"
GEMINI_MODEL == "gemini-model"

noNewsMessage == "Hacker News kara saikin no nyuusu wa mitsukarimasen deshita."

----------------------------------------------------------------------------
(* JavaScript values *)

\* A JS number that may be NaN.
Num(n) == [isNaN |-> FALSE, n |-> n]
NaN == [isNaN |-> TRUE, n |-> 0]

\* variant: a > b
GreaterEq_Strict(a, b) == (~b.isNaN) /\ a > b.n

\* a >= b for an integer a and a JS number b: every comparison with NaN is false.
GreaterEq(a, b) == (~b.isNaN) /\ a >= b.n

\* a <= b for an integer a and a JS number b.
LessEq(a, b) == (~b.isNaN) /\ a <= b.n

Min(a, b) == IF a <= b THEN a ELSE b
Max(a, b) == IF a >= b THEN a ELSE b

\* Array.prototype.slice(0, n) for n >= 0
Slice(s, n) == SubSeq(s, 1, Min(Len(s), n))

\* String.prototype.startsWith
StartsWith(s, p) == Len(s) >= Len(p) /\ SubSeq(s, 1, Len(p)) = p

RECURSIVE TrimLeft(_)
TrimLeft(s) == IF s # <<>> /\ Head(s) = " " THEN TrimLeft(Tail(s)) ELSE s

RECURSIVE TrimRight(_)
TrimRight(s) == IF s # <<>> /\ s[Len(s)] = " " THEN TrimRight(SubSeq(s, 1, Len(s) - 1)) ELSE s

\* String.prototype.trim
Trim(s) == TrimRight(TrimLeft(s))

----------------------------------------------------------------------------
(* Configuration *)

\* The stored ARTICLE_COUNT property: unset, a non-numeric text, or a decimal integer.
Props == {[kind |-> "unset", n |-> 0], [kind |-> "text", n |-> 0]}
           \cup [kind : {"int"}, n : (-1 .. MaxLimit) \cup {MAX_STORY_IDS_TO_PROCESS + 1}]

\* parseInt(getProperty("ARTICLE_COUNT") || "3", 10)
ARTICLE_COUNT ==
    CASE prop.kind = "unset" -> Num(DEFAULT_ARTICLE_COUNT)
      [] prop.kind = "text"  -> NaN
      [] OTHER               -> Num(prop.n)

----------------------------------------------------------------------------
(* The upstream Hacker News API *)

\* Answers to GET topstories.json: a status code (0: UrlFetchApp.fetch threw),
\* whether the body parses as JSON, and the number of IDs in the decoded list
\* (the IDs are 1..len, ranked).
IdListLens == (0 .. MaxIds) \cup {MAX_STORY_IDS_TO_PROCESS, MAX_STORY_IDS_TO_PROCESS + 1}

IdResponses == {[code |-> 500, json |-> TRUE, len |-> 0], [code |-> 200, json |-> FALSE, len |-> 0]}
                 \cup {[code |-> 0, json |-> FALSE, len |-> 0]}
                 \cup [code : {200}, json : {TRUE}, len : IdListLens]

\* Answers to GET item/<id>.json.  time 0 and title 0 stand for a missing field;
\* a title is named by a number, equal numbers being equal (normalized) titles.
Item(code, json, time, title, deleted, dead) ==
    [code |-> code, json |-> json, time |-> time, title |-> title, deleted |-> deleted, dead |-> dead]

OkItem(id) == Item(200, TRUE, 1000 + id, id, FALSE, FALSE)

ItemResponses(id) ==
    { Item(500, TRUE, 0, 0, FALSE, FALSE),
      Item(200, FALSE, 0, 0, FALSE, FALSE),
      Item(200, TRUE, 0, id, FALSE, FALSE),
      Item(200, TRUE, 1000 + id, 0, FALSE, FALSE),
      Item(200, TRUE, 1000 + id, 1, FALSE, FALSE),
      Item(200, TRUE, 1000 + id, id, TRUE, FALSE),
      Item(200, TRUE, 1000 + id, id, FALSE, TRUE),
      OkItem(id) }

Upstreams == { u \in [ids : IdResponses, items : [1 .. MaxVar -> UNION {ItemResponses(r) : r \in 1 .. MaxVar}]] :
                 \A r \in 1 .. MaxVar : u.items[r] \in ItemResponses(r) }

ItemAt(id) == IF id <= MaxVar THEN upstream.items[id] ELSE OkItem(id)

\* JSON.parse(idResponse.getContentText()) as number[]
storyIds == [k \in 1 .. upstream.ids.len |-> k]

\* variant: the candidate pool is not cut
targetStoryIds_NoSlice == storyIds

\* storyIds.slice(0, MAX_STORY_IDS_TO_PROCESS)
targetStoryIds == Slice(storyIds, MAX_STORY_IDS_TO_PROCESS)

\* fetchStoryDetails: the article built from an item response, or null
\* (non-200, JSON.parse throwing inside the try, missing time or title).
IsNull(x) == x.isNull
Null == [isNull |-> TRUE, title |-> 0, pubDate |-> 0, hackerNewsId |-> 0]

\* variant: only the time is required
fetchStoryDetails_TimeOnly(storyId) ==
    LET item == ItemAt(storyId) IN
    IF item.code # 200 THEN Null
    ELSE IF ~item.json THEN Null
    ELSE IF item.time = 0 THEN Null
    ELSE [isNull |-> FALSE, title |-> item.title, pubDate |-> item.time * 1000, hackerNewsId |-> storyId]

fetchStoryDetails(storyId) ==
    LET item == ItemAt(storyId) IN
    IF item.code # 200 THEN Null
    ELSE IF ~item.json THEN Null
    ELSE IF item.time = 0 \/ item.title = 0 THEN Null
    ELSE [isNull |-> FALSE, title |-> item.title, pubDate |-> item.time * 1000, hackerNewsId |-> storyId]

----------------------------------------------------------------------------
(* The Gemini endpoint *)

\* Answers to generateContent: whether the request got an answer at all, the
\* status code, whether the body parses as JSON, candidates[0].finishReason and
\* candidates[0].content.parts[0].text (hasText FALSE: the field is absent).
GeminiTexts == { <<>>, <<" ">>, <<"a">>, <<" ", "a", " ">>,
                 SAFETY_BLOCKED, GENERATION_FAILED, SAFETY_BLOCKED \o <<"a">> }

GeminiResponses ==
    { [sent |-> FALSE, code |-> 0, json |-> FALSE, finishReason |-> "STOP", hasText |-> FALSE, text |-> <<>>],
      [sent |-> TRUE, code |-> 500, json |-> TRUE, finishReason |-> "STOP", hasText |-> FALSE, text |-> <<>>],
      [sent |-> TRUE, code |-> 200, json |-> FALSE, finishReason |-> "STOP", hasText |-> FALSE, text |-> <<>>] }
      \cup [sent : {TRUE}, code : {200}, json : {TRUE}, finishReason : {"STOP", "SAFETY"}, hasText : {FALSE}, text : {<<>>}]
      \cup [sent : {TRUE}, code : {200}, json : {TRUE}, finishReason : {"STOP", "SAFETY"}, hasText : {TRUE}, text : GeminiTexts]

\* variant: only the sentinel strings themselves are rejected
isValidSummary_Exact(summary) ==
    summary # <<>> /\ summary # SAFETY_BLOCKED /\ summary # GENERATION_FAILED

\* isValidSummary
isValidSummary(summary) ==
    summary # <<>> /\ ~StartsWith(summary, SAFETY_BLOCKED) /\ ~StartsWith(summary, GENERATION_FAILED)

\* checkSafetyBlocking(...).blocked
checkSafetyBlocking(response) == response.finishReason = "SAFETY"

\* parseSuccessfulResponse(...).text: extractedText || GENERATION_FAILED
parseSuccessfulResponse(response) ==
    IF response.hasText /\ response.text # <<>> THEN response.text ELSE GENERATION_FAILED

\* variant: only server errors are thrown
callGeminiAPIThrows_ServerErrorsOnly(response) == ~response.sent \/ response.code >= 500 \/ ~response.json

\* callGeminiAPI throws: UrlFetchApp.fetch fails, the status is not 200, or
\* JSON.parse rejects the body; the catch block rethrows
callGeminiAPIThrows(response) == ~response.sent \/ response.code # 200 \/ ~response.json

\* variant: output text wins over the finish reason
callGeminiAPI_TextFirst(response) ==
    IF response.hasText /\ response.text # <<>> THEN response.text
    ELSE IF checkSafetyBlocking(response) THEN SAFETY_BLOCKED
    ELSE GENERATION_FAILED

\* callGeminiAPI(...).text when it returns
callGeminiAPI(response) ==
    IF checkSafetyBlocking(response) THEN SAFETY_BLOCKED ELSE parseSuccessfulResponse(response)

\* generateSingleArticleSummary: callGeminiAPI(...).text.trim()
generateSingleArticleSummary(response) == Trim(callGeminiAPI(response))

----------------------------------------------------------------------------
(* The Slack endpoint *)

\* Answers to chat.postMessage: transport failure (or an unparsable body), or a
\* status code and body.ok
SlackResponses == {[sent |-> FALSE, code |-> 0, ok |-> FALSE]}
                    \cup [sent : {TRUE}, code : {200, 500}, ok : BOOLEAN]

\* JavaScript values given where a string is expected
Undefined == [kind |-> "undefined", s |-> ""]
JsNull == [kind |-> "null", s |-> ""]
Str(s) == [kind |-> "string", s |-> s]

\* ToBoolean of such a value
Truthy(v) == v.kind = "string" /\ v.s # ""

\* variant: the model name is not required
validateSlackParams_NoModelCheck(summaryOrFullText, channelId, botToken, model) ==
    /\ ~(~Truthy(summaryOrFullText) /\ summaryOrFullText # Str(""))
    /\ Truthy(channelId)
    /\ Truthy(botToken)

\* validateSlackParams returns (TRUE) or throws (FALSE)
validateSlackParams(summaryOrFullText, channelId, botToken, model) ==
    /\ ~(~Truthy(summaryOrFullText) /\ summaryOrFullText # Str(""))
    /\ Truthy(channelId)
    /\ Truthy(botToken)
    /\ Truthy(model)

\* postToSlack: whether UrlFetchApp.fetch was called, and whether the call threw
postToSlack(summaryOrFullText, channelId, botToken, model, response) ==
    LET valid == validateSlackParams(summaryOrFullText, channelId, botToken, model) IN
    [requested |-> valid,
     threw |-> ~valid \/ ~response.sent \/ (response.code # 200 \/ ~response.ok)]

\* variant: the ok flag of the body is not read
postArticleToSlack_IgnoreOk(aiSummary, channelId, botToken, model, response) ==
    LET valid == validateSlackParams(aiSummary, channelId, botToken, model) IN
    [requested |-> valid,
     threw |-> ~valid \/ ~response.sent \/ response.code # 200]

\* postArticleToSlack: whether UrlFetchApp.fetch was called, and whether the call threw
postArticleToSlack(aiSummary, channelId, botToken, model, response) ==
    LET valid == validateSlackParams(aiSummary, channelId, botToken, model) IN
    [requested |-> valid,
     threw |-> ~valid \/ ~response.sent \/ (response.code # 200 \/ ~response.ok)]

\* article.pubDate as postArticleToSlack reads it: a date string that
\* new Date(...) parses to ms milliseconds since the epoch, or one it cannot parse
DateString(ms) == [valid |-> TRUE, ms |-> ms]
InvalidDateString == [valid |-> FALSE, ms |-> 0]

\* postArticleToSlack: Math.floor(new Date(article.pubDate).getTime() / 1000),
\* the ts of the attachment; getTime() of an invalid date is NaN
articleTimestamp(article) ==
    IF article.pubDate.valid THEN Num(article.pubDate.ms \div 1000) ELSE NaN

\* a Slack post made by main returns (TRUE) or throws (FALSE)
SlackPostReturns(response) ==
    ~postArticleToSlack(Str("summary"), Str(SLACK_CHANNEL_ID), Str(SLACK_BOT_TOKEN), Str(GEMINI_MODEL), response).threw

----------------------------------------------------------------------------
(* The orchestrator *)

Event(op, art, res, ms) == [op |-> op, art |-> art, res |-> res, ms |-> ms]

\* `${summaries.length} summaries posted.`
resultString(n) == <<ToString(n), " summaries posted.">>

\* variant: sleep after every element
ShouldSleep_Always(index, length) == TRUE

\* withRateLimit: sleep after the element at 0-based index unless it is the last
ShouldSleep(index, length) == index < length - 1

\* main: if (articles.length === 0) post the no-news message, else summarize
AfterFetch(arts) == IF Len(arts) = 0 THEN "noNews" ELSE "gen"

\* variant: each article is posted right after its own summary
AfterSummary_PostAtOnce(n) == <<"post", n>>

\* articles.map(...) has run its callback on element n (1-based): next element,
\* or on to summaries.forEach(...)
AfterSummary(n) == IF n < Len(articles) THEN <<"gen", n + 1>> ELSE <<"post", 1>>

\* variant: forEach stops one element early
AfterPost_SkipLast(n) == IF n < Len(summaries) - 1 THEN <<"post", n + 1>> ELSE <<"ret", n>>

\* summaries.forEach(...) has run its callback on element n: next element, or return
AfterPost(n) == IF n < Len(summaries) THEN <<"post", n + 1>> ELSE <<"ret", n>>

\* no call of fetchCommentsForStory or of a single function is under way
AuxIdle ==
    /\ kids = <<>>
    /\ maxComments = 0
    /\ cpos = 1
    /\ comments = <<>>
    /\ cpc = "idle"
    /\ arg = <<>>
    /\ ret = <<>>

\* ARTICLE_COUNT settings explored for whole runs of main
MainProps == {p \in Props : p.kind = "unset" \/ (p.kind = "int" /\ p.n <= MaxLimit)}

Init ==
    /\ prop \in MainProps
    /\ upstream \in Upstreams
    /\ pc = "start"
    /\ idx = 1
    /\ articles = <<>>
    /\ summaries = <<>>
    /\ i = 1
    /\ log = <<>>
    /\ channel = <<>>
    /\ outcome = "running"
    /\ result = <<>>
    /\ AuxIdle

\* variant: an unparsable ID list is not caught
FetchIds_NoCatch ==
    /\ pc = "start"
    /\ log' = Append(log, Event("ids", 0, IF upstream.ids.code = 200 THEN "ok" ELSE "error", 0))
    /\ IF upstream.ids.code = 200 /\ ~upstream.ids.json
       THEN pc' = "done" /\ outcome' = "thrown"
       ELSE /\ outcome' = outcome
            /\ IF upstream.ids.code # 200 \/ Len(storyIds) = 0
               THEN pc' = AfterFetch(<<>>)
               ELSE pc' = "items"
    /\ UNCHANGED <<prop, upstream, idx, articles, summaries, i, channel, result>>
    /\ UNCHANGED auxVars

\* fetchHackerNews: the ID-list request and the early returns of [] (status not
\* 200, empty list, or an exception caught by the function's catch block)
FetchIds ==
    /\ pc = "start"
    /\ log' = Append(log, Event("ids", 0, IF upstream.ids.code = 200 THEN "ok" ELSE "error", 0))
    /\ IF upstream.ids.code # 200 \/ ~upstream.ids.json \/ Len(storyIds) = 0
       THEN pc' = AfterFetch(<<>>)
       ELSE pc' = "items"
    /\ UNCHANGED <<prop, upstream, idx, articles, summaries, i, channel, outcome, result>>
    /\ UNCHANGED auxVars

\* variant: the scan ends at the first item that gives no article
FetchStory_StopOnInvalid ==
    /\ pc = "items"
    /\ idx <= Len(targetStoryIds)
    /\ ~GreaterEq(Len(articles), ARTICLE_COUNT)
    /\ LET article == fetchStoryDetails(targetStoryIds[idx]) IN
         /\ log' = Append(log, Event("item", targetStoryIds[idx], IF IsNull(article) THEN "null" ELSE "ok", 0))
         /\ articles' = IF IsNull(article) THEN articles ELSE Append(articles, article)
         /\ idx' = IF IsNull(article) THEN Len(targetStoryIds) + 1 ELSE idx + 1
    /\ UNCHANGED <<prop, upstream, pc, summaries, i, channel, outcome, result>>
    /\ UNCHANGED auxVars

\* variant: the loop has no break
FetchStory_NoBreak ==
    /\ pc = "items"
    /\ idx <= Len(targetStoryIds)
    /\ LET article == fetchStoryDetails(targetStoryIds[idx]) IN
         /\ log' = Append(log, Event("item", targetStoryIds[idx], IF IsNull(article) THEN "null" ELSE "ok", 0))
         /\ articles' = IF IsNull(article) THEN articles ELSE Append(articles, article)
    /\ idx' = idx + 1
    /\ UNCHANGED <<prop, upstream, pc, summaries, i, channel, outcome, result>>
    /\ UNCHANGED auxVars

\* fetchHackerNews: one iteration of the loop over targetStoryIds
FetchStory ==
    /\ pc = "items"
    /\ idx <= Len(targetStoryIds)
    /\ ~GreaterEq(Len(articles), ARTICLE_COUNT)
    /\ LET article == fetchStoryDetails(targetStoryIds[idx]) IN
         /\ log' = Append(log, Event("item", targetStoryIds[idx], IF IsNull(article) THEN "null" ELSE "ok", 0))
         /\ articles' = IF IsNull(article) THEN articles ELSE Append(articles, article)
    /\ idx' = idx + 1
    /\ UNCHANGED <<prop, upstream, pc, summaries, i, channel, outcome, result>>
    /\ UNCHANGED auxVars

\* fetchHackerNews: the loop ends (break, or candidates exhausted) and the list is returned
FetchReturn ==
    /\ pc = "items"
    /\ (idx > Len(targetStoryIds) \/ GreaterEq(Len(articles), ARTICLE_COUNT))
    /\ pc' = AfterFetch(articles)
    /\ UNCHANGED <<prop, upstream, idx, articles, summaries, i, log, channel, outcome, result>>
    /\ UNCHANGED auxVars

\* variant: the no-news branch returns without posting
NoNewsFound_NoPost ==
    /\ pc = "noNews"
    /\ outcome' = "returned"
    /\ result' = <<noNewsMessage>>
    /\ pc' = "done"
    /\ UNCHANGED <<prop, upstream, idx, articles, summaries, i, log, channel>>
    /\ UNCHANGED auxVars

\* main: the no-news branch; a failing postToSlack propagates out of main
NoNewsFound ==
    /\ pc = "noNews"
    /\ \E response \in SlackResponses :
         /\ log' = Append(log, Event("noNews", 0, IF SlackPostReturns(response) THEN "ok" ELSE "error", 0))
         /\ IF SlackPostReturns(response)
            THEN /\ channel' = Append(channel, [kind |-> "text", art |-> 0, text |-> noNewsMessage])
                 /\ outcome' = "returned"
                 /\ result' = <<noNewsMessage>>
            ELSE /\ outcome' = "thrown"
                 /\ UNCHANGED <<channel, result>>
    /\ pc' = "done"
    /\ UNCHANGED <<prop, upstream, idx, articles, summaries, i>>
    /\ UNCHANGED auxVars

\* variant: an article whose summary fails or is invalid is dropped and the map goes on
Summarize_SkipInvalid ==
    /\ pc = "gen"
    /\ i <= Len(articles)
    /\ \E response \in GeminiResponses :
         LET summaryBody == generateSingleArticleSummary(response)
             bad == callGeminiAPIThrows(response) \/ ~isValidSummary(summaryBody) IN
         /\ log' = Append(log, Event("gen", i, IF callGeminiAPIThrows(response) THEN "error"
                                               ELSE IF bad THEN "invalid" ELSE "valid", 0))
         /\ summaries' = IF bad THEN summaries
                         ELSE Append(summaries, [article |-> articles[i], summaryBody |-> summaryBody])
         /\ IF ShouldSleep(i - 1, Len(articles))
            THEN pc' = "genSleep" /\ i' = i
            ELSE pc' = AfterSummary(i)[1] /\ i' = AfterSummary(i)[2]
    /\ UNCHANGED <<prop, upstream, idx, articles, channel, outcome, result>>
    /\ UNCHANGED auxVars

\* main: withRateLimit(processArticleForSummary, 1000) applied to articles[i]
Summarize ==
    /\ pc = "gen"
    /\ i <= Len(articles)
    /\ \E response \in GeminiResponses :
         LET summaryBody == generateSingleArticleSummary(response) IN
         IF callGeminiAPIThrows(response)
         THEN /\ log' = Append(log, Event("gen", i, "error", 0))
              /\ outcome' = "thrown"
              /\ pc' = "done"
              /\ UNCHANGED <<summaries, i>>
         ELSE IF ~isValidSummary(summaryBody)
         THEN /\ log' = Append(log, Event("gen", i, "invalid", 0))
              /\ outcome' = "thrown"
              /\ pc' = "done"
              /\ UNCHANGED <<summaries, i>>
         ELSE /\ log' = Append(log, Event("gen", i, "valid", 0))
              /\ summaries' = Append(summaries, [article |-> articles[i], summaryBody |-> summaryBody])
              /\ outcome' = outcome
              /\ IF ShouldSleep(i - 1, Len(articles))
                 THEN pc' = "genSleep" /\ i' = i
                 ELSE pc' = AfterSummary(i)[1] /\ i' = AfterSummary(i)[2]
    /\ UNCHANGED <<prop, upstream, idx, articles, channel, result>>
    /\ UNCHANGED auxVars

\* withRateLimit: Utilities.sleep(1000) between two generation calls
GenSleep ==
    /\ pc = "genSleep"
    /\ log' = Append(log, Event("sleep", i, "ok", GEMINI_DELAY_MS))
    /\ pc' = AfterSummary(i)[1]
    /\ i' = AfterSummary(i)[2]
    /\ UNCHANGED <<prop, upstream, idx, articles, summaries, channel, outcome, result>>
    /\ UNCHANGED auxVars

\* variant: a failed post is swallowed and the loop goes on
Post_SwallowErrors ==
    /\ pc = "post"
    /\ i <= Len(summaries)
    /\ \E response \in SlackResponses :
         /\ log' = Append(log, Event("post", i, IF SlackPostReturns(response) THEN "ok" ELSE "error", 0))
         /\ channel' = IF SlackPostReturns(response)
                       THEN Append(channel, [kind |-> "article", art |-> i, text |-> summaries[i].summaryBody])
                       ELSE channel
         /\ IF ShouldSleep(i - 1, Len(summaries))
            THEN pc' = "postSleep" /\ i' = i
            ELSE pc' = AfterPost(i)[1] /\ i' = AfterPost(i)[2]
    /\ UNCHANGED <<prop, upstream, idx, articles, summaries, outcome, result>>
    /\ UNCHANGED auxVars

\* variant: forEach visits the summaries from the last to the first
Post_ReverseOrder ==
    /\ pc = "post"
    /\ i <= Len(summaries)
    /\ \E response \in SlackResponses :
         LET k == Len(summaries) + 1 - i IN
         IF SlackPostReturns(response)
         THEN /\ log' = Append(log, Event("post", k, "ok", 0))
              /\ channel' = Append(channel, [kind |-> "article", art |-> k, text |-> summaries[k].summaryBody])
              /\ outcome' = outcome
              /\ IF ShouldSleep(i - 1, Len(summaries))
                 THEN pc' = "postSleep" /\ i' = i
                 ELSE pc' = AfterPost(i)[1] /\ i' = AfterPost(i)[2]
         ELSE /\ log' = Append(log, Event("post", k, "error", 0))
              /\ outcome' = "thrown"
              /\ pc' = "done"
              /\ UNCHANGED <<channel, i>>
    /\ UNCHANGED <<prop, upstream, idx, articles, summaries, result>>
    /\ UNCHANGED auxVars

\* main: withRateLimit(postSummaryToSlack) applied to summaries[i]
Post ==
    /\ pc = "post"
    /\ i <= Len(summaries)
    /\ \E response \in SlackResponses :
         IF SlackPostReturns(response)
         THEN /\ log' = Append(log, Event("post", i, "ok", 0))
              /\ channel' = Append(channel, [kind |-> "article", art |-> i, text |-> summaries[i].summaryBody])
              /\ outcome' = outcome
              /\ IF ShouldSleep(i - 1, Len(summaries))
                 THEN pc' = "postSleep" /\ i' = i
                 ELSE pc' = AfterPost(i)[1] /\ i' = AfterPost(i)[2]
         ELSE /\ log' = Append(log, Event("post", i, "error", 0))
              /\ outcome' = "thrown"
              /\ pc' = "done"
              /\ UNCHANGED <<channel, i>>
    /\ UNCHANGED <<prop, upstream, idx, articles, summaries, result>>
    /\ UNCHANGED auxVars

\* variant: the pause between two posts never ends
PostSleep_Stuck ==
    /\ pc = "postSleep"
    /\ UNCHANGED vars

\* withRateLimit: Utilities.sleep(2000) between two posts
PostSleep ==
    /\ pc = "postSleep"
    /\ log' = Append(log, Event("sleep", i, "ok", DEFAULT_DELAY_MS))
    /\ pc' = AfterPost(i)[1]
    /\ i' = AfterPost(i)[2]
    /\ UNCHANGED <<prop, upstream, idx, articles, summaries, channel, outcome, result>>
    /\ UNCHANGED auxVars

\* main: return `${summaries.length} summaries posted.`
MainReturn ==
    /\ pc = "ret"
    /\ outcome' = "returned"
    /\ result' = resultString(Len(summaries))
    /\ pc' = "done"
    /\ UNCHANGED <<prop, upstream, idx, articles, summaries, i, log, channel>>
    /\ UNCHANGED auxVars

Next ==
    \/ FetchIds
    \/ FetchStory
    \/ FetchReturn
    \/ NoNewsFound
    \/ Summarize
    \/ GenSleep
    \/ Post
    \/ PostSleep
    \/ MainReturn

Spec == Init /\ [][Next]_vars

\* fetchHackerNews alone, for every ARTICLE_COUNT setting (also NaN and limits above the pool)
InitFetch ==
    /\ prop \in Props
    /\ upstream \in Upstreams
    /\ pc = "start"
    /\ idx = 1
    /\ articles = <<>>
    /\ summaries = <<>>
    /\ i = 1
    /\ log = <<>>
    /\ channel = <<>>
    /\ outcome = "running"
    /\ result = <<>>
    /\ AuxIdle

NextFetch ==
    \/ FetchIds
    \/ FetchStory
    \/ FetchReturn

SpecFetch == InitFetch /\ [][NextFetch]_vars

----------------------------------------------------------------------------
(* Observations on a run *)

\* positions of the log holding operation op for article k
At(op, k) == {p \in DOMAIN log : log[p].op = op /\ log[p].art = k}

\* positions of the log holding operation op for article k with result res
AtRes(op, k, res) == {p \in At(op, k) : log[p].res = res}

Ops(op) == {p \in DOMAIN log : log[p].op = op}

\* full article posts the Slack endpoint accepted for article k
Delivered(k) == {m \in DOMAIN channel : channel[m].kind = "article" /\ channel[m].art = k}

\* articles with a valid generated summary whose post completed
SummarizedAndPosted == {k \in 1 .. Len(articles) : AtRes("gen", k, "valid") # {} /\ Delivered(k) # {}}

\* a generation call or a post raised a hard error
HardError == \E p \in DOMAIN log : log[p].op \in {"gen", "post"} /\ log[p].res = "error"

\* every generation call gave a valid summary and every post succeeded
AllSucceeded == \A p \in DOMAIN log : log[p].op \in {"gen", "post"} => log[p].res \in {"valid", "ok"}

----------------------------------------------------------------------------
(* C1 *)

----------------------------------------------------------------------------
(* C2, C3, C4, C9: containment of failures *)

\* plain text messages in the channel that name article k (k >= 1)
Reports(k) == {m \in DOMAIN channel : channel[m].kind = "text" /\ channel[m].art = k}

\* plain text messages in the channel that are not the no-news message
GeneralErrors == {m \in DOMAIN channel :
                     channel[m].kind = "text" /\ channel[m].art = 0 /\ channel[m].text # noNewsMessage}

\* the Slack endpoint accepted every request of the run
SlackAccepted == \A p \in DOMAIN log : log[p].op \in {"post", "noNews"} => log[p].res = "ok"

\* C2: one bad article never aborts the run: with invalid summaries only (no
\* hard error), main summarizes every article, posts every article that has a
\* valid summary, and returns "<k> summaries posted." for the k valid ones.
C2_BadArticleNeverAborts ==
    (pc = "done" /\ Len(articles) > 0 /\ ~HardError) =>
        /\ outcome = "returned"
        /\ \A k \in 1 .. Len(articles) : At("gen", k) # {}
        /\ \A k \in 1 .. Len(articles) : AtRes("gen", k, "valid") # {} => Delivered(k) # {}
        /\ result = resultString(Cardinality({k \in 1 .. Len(articles) : AtRes("gen", k, "valid") # {}}))

\* C3: an article whose summary is invalid is never posted as a full article
\* post, and exactly one failure message naming it is in the channel instead.
C3_InvalidSummaryReported ==
    (pc = "done" /\ SlackAccepted) =>
        \A k \in 1 .. Len(articles) :
            AtRes("gen", k, "invalid") # {} =>
                At("post", k) = {} /\ Cardinality(Reports(k)) = 1

\* C4: a hard error of the Summarizer or the Notifier for one article does not
\* abort the run: every article is still processed and main returns the count
\* of the articles that were posted.
C4_HardErrorContained ==
    (pc = "done" /\ HardError) =>
        /\ outcome = "returned"
        /\ \A k \in 1 .. Len(articles) : At("gen", k) # {}
        /\ result = resultString(Cardinality(SummarizedAndPosted))

\* C9: an error that escapes main is first reported to the channel as a single
\* general-error message (here: whenever the Slack endpoint accepts requests).
C9_EscapingErrorReported ==
    (outcome = "thrown" /\ SlackAccepted) => Cardinality(GeneralErrors) = 1

----------------------------------------------------------------------------
(* C5, C6, C7, C8: results and pacing of a run *)

\* C5: a returned "<count> summaries posted." counts exactly the articles that
\* got a valid summary and whose article post completed.
C5_CountIsPosted ==
    (outcome = "returned" /\ result # <<noNewsMessage>>) =>
        result = resultString(Cardinality(SummarizedAndPosted))

C5_Witness ==
    /\ outcome = "returned"
    /\ result = resultString(2)
    /\ Cardinality(SummarizedAndPosted) = 2

\* C6: with zero fetched articles main makes no generation call and no article
\* post, makes exactly one post, of the no-news message, and when the endpoint
\* accepts it the channel holds exactly that message and main returns the
\* no-news string.
C6_NoNews ==
    (pc = "done" /\ Len(articles) = 0) =>
        /\ Ops("gen") = {} /\ Ops("post") = {}
        /\ Cardinality(Ops("noNews")) = 1
        /\ SlackAccepted =>
               /\ outcome = "returned"
               /\ result = <<noNewsMessage>>
               /\ channel = <<[kind |-> "text", art |-> 0, text |-> noNewsMessage]>>

C6_Witness ==
    /\ pc = "done"
    /\ upstream.ids.code = 200 /\ upstream.ids.json /\ upstream.ids.len = 0
    /\ outcome = "returned"
    /\ result = <<noNewsMessage>>

\* C7: when n >= 1 articles are fetched and every generation call and every
\* post succeeds, the finished run made exactly one generation call and one
\* article post per article and returned "<n> summaries posted.".
C7_AllSucceed ==
    (pc = "done" /\ Len(articles) >= 1 /\ AllSucceeded) =>
        /\ \A k \in 1 .. Len(articles) : Cardinality(At("gen", k)) = 1 /\ Cardinality(At("post", k)) = 1
        /\ Cardinality(Ops("gen")) = Len(articles)
        /\ Cardinality(Ops("post")) = Len(articles)
        /\ Cardinality({m \in DOMAIN channel : channel[m].kind = "article"}) = Len(articles)
        /\ outcome = "returned"
        /\ result = resultString(Len(articles))

C7_Witness ==
    /\ pc = "done"
    /\ Len(articles) = 3
    /\ AllSucceeded
    /\ result = resultString(3)

\* C8: the generation call of every article after the first directly follows a
\* 1000 ms sleep that follows the previous article's generation call; the post
\* of every article after the first directly follows a 2000 ms sleep that
\* follows the previous article's post; no sleep follows the last article's
\* generation call or post, and a finished run does not end with a sleep.
C8_Pacing ==
    /\ \A p \in DOMAIN log :
           (log[p].op = "gen" /\ log[p].art > 1) =>
               /\ p > 2
               /\ log[p - 1] = Event("sleep", log[p].art - 1, "ok", GEMINI_DELAY_MS)
               /\ log[p - 2] = Event("gen", log[p].art - 1, "valid", 0)
    /\ \A p \in DOMAIN log :
           (log[p].op = "post" /\ log[p].art > 1) =>
               /\ p > 2
               /\ log[p - 1] = Event("sleep", log[p].art - 1, "ok", DEFAULT_DELAY_MS)
               /\ log[p - 2] = Event("post", log[p].art - 1, "ok", 0)
    /\ \A p \in DOMAIN log : log[p].op = "sleep" => log[p].art < Len(articles)
    /\ (pc = "done" /\ log # <<>>) => log[Len(log)].op # "sleep"

C8_Witness ==
    /\ pc = "done"
    /\ outcome = "returned"
    /\ Len(articles) = 3
    /\ Cardinality(Ops("sleep")) = 4

----------------------------------------------------------------------------
(* C10: size of the list fetchHackerNews returns *)

\* fetchHackerNews has returned
Fetched == pc \notin {"start", "items"}

\* C10 (as stated): for every limit the returned list is no longer than the
\* requested limit and no longer than 30.
C10_AtMostLimit ==
    Fetched => LessEq(Len(articles), ARTICLE_COUNT) /\ Len(articles) <= MAX_STORY_IDS_TO_PROCESS

\* C10 (amended): the returned list is never longer than 30; for a numeric
\* limit it is no longer than max(limit, 0), so it is empty, not shorter than
\* the limit, when the limit is negative; a NaN limit bounds nothing.
C10_AtMostLimitOrEmpty ==
    /\ Len(articles) <= MAX_STORY_IDS_TO_PROCESS
    /\ ~ARTICLE_COUNT.isNaN => Len(articles) <= Max(ARTICLE_COUNT.n, 0)

C10_Witness ==
    /\ Fetched
    /\ upstream.ids.len > MAX_STORY_IDS_TO_PROCESS
    /\ Len(articles) = MAX_STORY_IDS_TO_PROCESS

----------------------------------------------------------------------------
(* fetchCommentsForStory on its own *)

\* main is not running
MainIdle ==
    /\ prop = [kind |-> "unset", n |-> 0]
    /\ upstream = [ids |-> [code |-> 500, json |-> TRUE, len |-> 0], items |-> [r \in 1 .. MaxVar |-> OkItem(r)]]
    /\ pc = "done"
    /\ idx = 1
    /\ articles = <<>>
    /\ summaries = <<>>
    /\ i = 1
    /\ log = <<>>
    /\ channel = <<>>
    /\ outcome = "running"
    /\ result = <<>>

\* Answers to GET item/<commentId>.json.  text 0 stands for a missing or empty
\* text; the text of the comment at position p of commentIds is named p.
Comment(code, json, text, deleted, dead) ==
    [code |-> code, json |-> json, text |-> text, deleted |-> deleted, dead |-> dead]

OkComment(id) == Comment(200, TRUE, id, FALSE, FALSE)

CommentResponses(id) ==
    { Comment(500, TRUE, 0, FALSE, FALSE),
      Comment(200, FALSE, 0, FALSE, FALSE),
      Comment(200, TRUE, 0, FALSE, FALSE),
      Comment(200, TRUE, id, TRUE, FALSE),
      Comment(200, TRUE, id, FALSE, TRUE),
      OkComment(id) }

\* a long kids list has one entry more than the widest window of the default call
LongKids == 2 * DEFAULT_MAX_COMMENTS + 1

ShortKidLists ==
    UNION { { k \in [1 .. n -> UNION {CommentResponses(p) : p \in 1 .. n}] :
                \A p \in 1 .. n : k[p] \in CommentResponses(p) } : n \in 0 .. MaxKids }

\* item.kids of the story: short lists vary in full; long lists vary in their
\* first MaxKids positions and continue with live comments
KidLists ==
    ShortKidLists \cup
    { k \o [p \in 1 .. (LongKids - MaxKids) |-> OkComment(MaxKids + p)] :
        k \in {s \in ShortKidLists : Len(s) = MaxKids} }

\* maxComments: the default, or a small explicit value
CommentLimits == (0 .. MaxComments) \cup {DEFAULT_MAX_COMMENTS}

commentIds == [p \in 1 .. Len(kids) |-> p]

\* variant: every reply ID is a candidate
candidateIds_NoWindow == commentIds

\* commentIds.slice(0, maxComments * 2)
candidateIds == Slice(commentIds, maxComments * 2)

\* variant: the deleted flag is not read
fetchSingleComment_IgnoreDeleted(commentId) ==
    LET commentData == kids[commentId] IN
    IF commentData.code # 200 THEN 0
    ELSE IF ~commentData.json THEN 0
    ELSE IF commentData.text # 0 /\ ~commentData.dead THEN commentData.text
    ELSE 0

\* fetchSingleComment: the comment text, or 0 for null
fetchSingleComment(commentId) ==
    LET commentData == kids[commentId] IN
    IF commentData.code # 200 THEN 0
    ELSE IF ~commentData.json THEN 0
    ELSE IF commentData.text # 0 /\ ~commentData.deleted /\ ~commentData.dead THEN commentData.text
    ELSE 0

InitComments ==
    /\ MainIdle
    /\ kids \in KidLists
    /\ maxComments \in CommentLimits
    /\ cpos = 1
    /\ comments = <<>>
    /\ cpc = "loop"
    /\ arg = <<>>
    /\ ret = <<>>

\* fetchCommentsForStory: one iteration of the loop over candidateIds
FetchComment ==
    /\ cpc = "loop"
    /\ cpos <= Len(candidateIds)
    /\ ~(Len(comments) >= maxComments)
    /\ LET commentText == fetchSingleComment(candidateIds[cpos]) IN
         comments' = IF commentText # 0 THEN Append(comments, commentText) ELSE comments
    /\ cpos' = cpos + 1
    /\ UNCHANGED <<kids, maxComments, cpc>>
    /\ UNCHANGED <<mainVars, callVars>>

\* fetchCommentsForStory: the loop ends (break, or candidates exhausted)
CommentsReturn ==
    /\ cpc = "loop"
    /\ (cpos > Len(candidateIds) \/ Len(comments) >= maxComments)
    /\ cpc' = "returned"
    /\ UNCHANGED <<kids, maxComments, cpos, comments>>
    /\ UNCHANGED <<mainVars, callVars>>

NextComments ==
    \/ FetchComment
    \/ CommentsReturn

SpecComments == InitComments /\ [][NextComments]_vars

\* C13: fetchCommentsForStory holds at most maxComments texts, each the text of
\* an upstream comment that has a text and is neither deleted nor dead.
C13_BoundedLiveComments ==
    /\ Len(comments) <= maxComments
    /\ \A k \in DOMAIN comments :
           /\ comments[k] \in DOMAIN kids
           /\ kids[comments[k]].text # 0
           /\ ~kids[comments[k]].deleted
           /\ ~kids[comments[k]].dead

C13_Witness ==
    /\ cpc = "returned"
    /\ maxComments = DEFAULT_MAX_COMMENTS
    /\ Len(comments) = DEFAULT_MAX_COMMENTS
    /\ Len(kids) > cpos
    /\ \E p \in 1 .. (cpos - 1) : kids[p].text # 0 /\ kids[p].deleted
    /\ \E p \in 1 .. (cpos - 1) : kids[p].text # 0 /\ kids[p].dead
    /\ \E p \in 1 .. (cpos - 1) : kids[p].code = 200 /\ kids[p].json /\ kids[p].text = 0

----------------------------------------------------------------------------
(* isValidSummary on its own *)

\* no call of fetchCommentsForStory is under way
CommentsIdle ==
    /\ kids = <<>>
    /\ maxComments = 0
    /\ cpos = 1
    /\ comments = <<>>
    /\ cpc = "idle"

\* the characters of the two sentinels, and one other character
Chars == {"S", "B", ".", "G", "F", "a"}

\* every text of up to MaxLen characters
Texts == UNION { [1 .. n -> Chars] : n \in 0 .. MaxLen }

InitValid ==
    /\ MainIdle
    /\ CommentsIdle
    /\ arg \in [summary : Texts]
    /\ ret = <<>>

\* one call isValidSummary(summary)
CallIsValidSummary ==
    /\ ret = <<>>
    /\ ret' = <<isValidSummary(arg.summary)>>
    /\ UNCHANGED <<mainVars, commentVars, arg>>

NextValid == CallIsValidSummary

SpecValid == InitValid /\ [][NextValid]_vars

\* the text is one of the two sentinels followed by zero or more characters
BeginsWithSentinel(text) ==
    \E n \in 0 .. Len(text) : SubSeq(text, 1, n) \in {SAFETY_BLOCKED, GENERATION_FAILED}

\* C14 (as stated): isValidSummary is false exactly for the empty text and for
\* the two sentinel strings themselves.
C14_InvalidIffExactSentinel ==
    ret # <<>> =>
        (ret[1] = FALSE <=> (arg.summary = <<>> \/ arg.summary \in {SAFETY_BLOCKED, GENERATION_FAILED}))

\* C14 (amended): isValidSummary is false exactly for the empty text and for
\* every text that begins with one of the two sentinel strings.
C14_InvalidIffSentinelPrefix ==
    ret # <<>> =>
        (ret[1] = FALSE <=> (Len(arg.summary) = 0 \/ BeginsWithSentinel(arg.summary)))

C14_Witness ==
    /\ ret = <<FALSE>>
    /\ arg.summary = SAFETY_BLOCKED \o <<"a">>

----------------------------------------------------------------------------
(* callGeminiAPI and generateSingleArticleSummary on their own *)

\* status codes the generation endpoint answers with
GeminiCodes == {200, 400, 429, 500, 503}

\* Answers to one generateContent request: the request fails in transport, or
\* it is answered with a status code and a body of any shape
GeminiCallResponses ==
    { [sent |-> FALSE, code |-> 0, json |-> FALSE, finishReason |-> "STOP", hasText |-> FALSE, text |-> <<>>] }
    \cup [sent : {TRUE}, code : GeminiCodes, json : BOOLEAN, finishReason : {"STOP", "SAFETY"}, hasText : {FALSE}, text : {<<>>}]
    \cup [sent : {TRUE}, code : GeminiCodes, json : BOOLEAN, finishReason : {"STOP", "SAFETY"}, hasText : {TRUE}, text : GeminiTexts]

\* what a call did: it threw, or it returned text
Threw == [threw |-> TRUE, text |-> <<>>]
Returned(text) == [threw |-> FALSE, text |-> text]

InitGemini ==
    /\ MainIdle
    /\ CommentsIdle
    /\ arg \in [fn : {"callGeminiAPI", "generateSingleArticleSummary"}, response : GeminiCallResponses]
    /\ ret = <<>>

\* one call callGeminiAPI(apiKey, model, contents)
CallCallGeminiAPI ==
    /\ ret = <<>>
    /\ arg.fn = "callGeminiAPI"
    /\ ret' = <<IF callGeminiAPIThrows(arg.response) THEN Threw ELSE Returned(callGeminiAPI(arg.response))>>
    /\ UNCHANGED <<mainVars, commentVars, arg>>

\* one call generateSingleArticleSummary(apiKey, model, article)
CallGenerateSingleArticleSummary ==
    /\ ret = <<>>
    /\ arg.fn = "generateSingleArticleSummary"
    /\ ret' = <<IF callGeminiAPIThrows(arg.response) THEN Threw
                ELSE Returned(generateSingleArticleSummary(arg.response))>>
    /\ UNCHANGED <<mainVars, commentVars, arg>>

NextGemini ==
    \/ CallCallGeminiAPI
    \/ CallGenerateSingleArticleSummary

SpecGemini == InitGemini /\ [][NextGemini]_vars

\* C18: when the generation request fails or is answered with a status other
\* than 200, callGeminiAPI and generateSingleArticleSummary throw and return no text.
C18_Non200Throws ==
    (ret # <<>> /\ (~arg.response.sent \/ arg.response.code # 200)) =>
        (ret[1].threw /\ ret[1].text = <<>>)

C18_Witness ==
    /\ ret # <<>>
    /\ arg.fn = "generateSingleArticleSummary"
    /\ arg.response.sent /\ arg.response.code = 429
    /\ arg.response.json /\ arg.response.hasText /\ arg.response.text = <<"a">>
    /\ ret[1].threw

----------------------------------------------------------------------------
(* postToSlack and postArticleToSlack on their own *)

\* texts given to a post
SlackTexts == {Undefined, JsNull, Str(""), Str("summary")}

\* channel ID, bot token and model name given to a post
SlackChannelIds == {Undefined, Str(""), Str(SLACK_CHANNEL_ID)}
SlackBotTokens == {Undefined, Str(""), Str(SLACK_BOT_TOKEN)}
SlackModels == {Undefined, Str(""), Str(GEMINI_MODEL)}

\* publish dates of the article given to postArticleToSlack
PubDates == {InvalidDateString, DateString(1000 * 1001), DateString(1000 * 1001 + 999)}

\* the clock at the moment of sending, in epoch seconds
Nows == {5000}

InitSlack ==
    /\ MainIdle
    /\ CommentsIdle
    /\ arg \in [fn : {"postToSlack", "postArticleToSlack"}, text : SlackTexts, channelId : SlackChannelIds,
                 botToken : SlackBotTokens, model : SlackModels, response : SlackResponses,
                 article : [pubDate : PubDates], now : Nows]
    /\ ret = <<>>

\* one call postToSlack(...)
CallPostToSlack ==
    /\ ret = <<>>
    /\ arg.fn = "postToSlack"
    /\ ret' = <<postToSlack(arg.text, arg.channelId, arg.botToken, arg.model, arg.response)>>
    /\ UNCHANGED <<mainVars, commentVars, arg>>

\* one call postArticleToSlack(...)
CallPostArticleToSlack ==
    /\ ret = <<>>
    /\ arg.fn = "postArticleToSlack"
    /\ LET r == postArticleToSlack(arg.text, arg.channelId, arg.botToken, arg.model, arg.response) IN
         ret' = <<[requested |-> r.requested, threw |-> r.threw, ts |-> articleTimestamp(arg.article)]>>
    /\ UNCHANGED <<mainVars, commentVars, arg>>

NextSlack ==
    \/ CallPostToSlack
    \/ CallPostArticleToSlack

SpecSlack == InitSlack /\ [][NextSlack]_vars

\* the value is null, undefined or the empty string
Missing(v) == v \in {Undefined, JsNull, Str("")}

ConfigPresent == ~Missing(arg.channelId) /\ ~Missing(arg.botToken) /\ ~Missing(arg.model)

\* C15: a post with a missing channel ID, bot token or model name throws without
\* a request, whatever the text; with all three present the request is made for
\* the empty text and refused only for a null or undefined text.
C15_ValidationBeforeRequest ==
    ret # <<>> =>
        /\ ~ConfigPresent => (ret[1].threw /\ ~ret[1].requested)
        /\ ConfigPresent => (ret[1].requested <=> arg.text \notin {Undefined, JsNull})
        /\ ~ret[1].requested => ret[1].threw

C15_Witness ==
    /\ ret # <<>>
    /\ arg.text = Str("")
    /\ arg.channelId = Str(SLACK_CHANNEL_ID) /\ arg.botToken = Str(SLACK_BOT_TOKEN)
    /\ arg.model = Str("")
    /\ arg.response.sent /\ arg.response.code = 200 /\ arg.response.ok
    /\ ret[1].threw /\ ~ret[1].requested

\* C19: a post returns only when the endpoint answered 200 with ok true; a
\* failed transport, another status or ok false make it throw.
C19_PostFailureThrows ==
    ret # <<>> =>
        /\ (~arg.response.sent \/ arg.response.code # 200 \/ ~arg.response.ok) => ret[1].threw
        /\ ~ret[1].threw => (ret[1].requested /\ arg.response.sent /\ arg.response.code = 200 /\ arg.response.ok)

C19_Witness ==
    /\ ret # <<>>
    /\ arg.fn = "postArticleToSlack"
    /\ ret[1].requested
    /\ arg.response.sent /\ arg.response.code = 200 /\ ~arg.response.ok
    /\ ret[1].threw

----------------------------------------------------------------------------
(* C11, C12, C16, C17: what fetchHackerNews returns *)

\* C11: no two returned articles share a normalized title.
C11_DistinctTitles ==
    Fetched =>
        \A a \in DOMAIN articles : \A b \in DOMAIN articles :
            a # b => articles[a].title # articles[b].title

\* the item request for story id was made and gave no article
Skipped(id) == \E p \in DOMAIN log : log[p] = Event("item", id, "null", 0)

\* C12: every returned article has a title and a publish time, taken from an
\* upstream item that has both; nothing else reaches the summaries or the channel.
C12_TitleAndTime ==
    /\ \A k \in DOMAIN articles :
           /\ articles[k].title # 0 /\ articles[k].pubDate > 0
           /\ ItemAt(articles[k].hackerNewsId).title # 0
           /\ ItemAt(articles[k].hackerNewsId).time # 0
    /\ \A k \in DOMAIN summaries : k <= Len(articles) /\ summaries[k].article = articles[k]
    /\ \A m \in DOMAIN channel : channel[m].kind = "article" => channel[m].art \in DOMAIN articles

C12_Witness ==
    /\ \E id \in 1 .. MaxVar :
           /\ Skipped(id)
           /\ ItemAt(id).code = 200 /\ ItemAt(id).json
           /\ (ItemAt(id).title = 0 \/ ItemAt(id).time = 0)
    /\ \E m \in DOMAIN channel : channel[m].kind = "article"

\* C16: fetchHackerNews never throws, and it returns the empty list when the
\* ID-list request fails (exception, status, unparsable body) or the list is empty.
C16_NeverThrows ==
    /\ outcome # "thrown"
    /\ (Fetched /\ (upstream.ids.code # 200 \/ ~upstream.ids.json \/ upstream.ids.len = 0)) =>
           articles = <<>>

C16_Witness ==
    /\ Fetched
    /\ upstream.ids.code = 200 /\ ~upstream.ids.json
    /\ articles = <<>>

\* C17: a story the upstream marks deleted or dead is never returned.
C17_NoDeletedOrDead ==
    \A k \in DOMAIN articles :
        ~ItemAt(articles[k].hackerNewsId).deleted /\ ~ItemAt(articles[k].hackerNewsId).dead

----------------------------------------------------------------------------
(* C20: retries of the generation call *)

\* C20: a generation call that fails is retried before the failure reaches main's caller.
C20_RetriedBeforeSurfaced ==
    \A k \in DOMAIN articles :
        (outcome = "thrown" /\ AtRes("gen", k, "error") # {}) => Cardinality(At("gen", k)) >= 2

----------------------------------------------------------------------------
(* C22, C23, C30: the scan of the candidate pool *)

\* fetchStoryDetails gives an article for story id
ValidItem(id) ==
    LET item == ItemAt(id) IN item.code = 200 /\ item.json /\ item.time # 0 /\ item.title # 0

\* the candidates that give an article, in rank order
ValidIds == SelectSeq(targetStoryIds, ValidItem)

ReturnedIds == [k \in DOMAIN articles |-> articles[k].hackerNewsId]

\* C22 (as stated): the returned list is the first min(limit, number of valid
\* items) valid items of the pool, in rank order.
C22_FirstMinLimitValid ==
    Fetched =>
        /\ LessEq(Len(articles), ARTICLE_COUNT)
        /\ Len(articles) <= Len(ValidIds)
        /\ (GreaterEq(Len(articles), ARTICLE_COUNT) \/ Len(articles) = Len(ValidIds))
        /\ ReturnedIds = SubSeq(ValidIds, 1, Len(articles))

\* how many articles the loop keeps: all valid ones for a NaN limit, none for a
\* limit of zero or less, else min(limit, number of valid items)
EffectiveCount ==
    IF ARTICLE_COUNT.isNaN THEN Len(ValidIds) ELSE Min(Max(ARTICLE_COUNT.n, 0), Len(ValidIds))

\* C22 (amended): the returned list is the first EffectiveCount valid items of
\* the pool, in rank order; invalid items in between are skipped.
C22_FirstEffectiveCountValid ==
    Fetched => ReturnedIds = SubSeq(ValidIds, 1, EffectiveCount)

C22_Witness ==
    /\ Fetched
    /\ ARTICLE_COUNT.isNaN
    /\ Skipped(1)
    /\ upstream.ids.len > MAX_STORY_IDS_TO_PROCESS
    /\ Len(articles) = MAX_STORY_IDS_TO_PROCESS - 1

\* C23: an item is requested only while fewer than limit valid articles have
\* been produced by the candidates ranked before it.
C23_ShortCircuit ==
    \A p \in DOMAIN log :
        log[p].op = "item" =>
            ~GreaterEq(Len(SelectSeq(SubSeq(targetStoryIds, 1, log[p].art - 1), ValidItem)), ARTICLE_COUNT)

C23_Witness ==
    /\ Fetched
    /\ prop = [kind |-> "int", n |-> 2]
    /\ Skipped(1)
    /\ Len(articles) = 2
    /\ idx = 4
    /\ Len(targetStoryIds) = MAX_STORY_IDS_TO_PROCESS

\* C30: with a limit of zero or less the ID list is requested, no item is
\* requested, the article list stays empty, and main takes the no-news branch:
\* it summarizes and posts no article, and when Slack accepts the message it
\* returns after posting exactly the no-news message.
C30_NonPositiveLimit ==
    (prop.kind = "int" /\ prop.n <= 0) =>
        /\ Ops("item") = {} /\ Ops("gen") = {} /\ Ops("post") = {}
        /\ articles = <<>>
        /\ pc # "start" => Cardinality(Ops("ids")) = 1
        /\ pc \in {"start", "items", "noNews", "done"}
        /\ pc = "done" =>
               /\ Cardinality(Ops("noNews")) = 1
               /\ outcome = "returned" =>
                      /\ result = <<noNewsMessage>>
                      /\ channel = <<[kind |-> "text", art |-> 0, text |-> noNewsMessage]>>

C30_Witness ==
    /\ prop = [kind |-> "int", n |-> 0]
    /\ upstream.ids.code = 200 /\ upstream.ids.json /\ upstream.ids.len >= 1
    /\ \A r \in 1 .. MaxVar : ValidItem(r)
    /\ pc = "done"
    /\ outcome = "returned"
    /\ channel = <<[kind |-> "text", art |-> 0, text |-> noNewsMessage]>>

----------------------------------------------------------------------------
(* C27, C28: the two phases of main *)

\* a generation call raised or gave an invalid summary
GenerationFailed == \E p \in DOMAIN log : log[p].op = "gen" /\ log[p].res \in {"error", "invalid"}

\* C27: a post is attempted only when every fetched article has a valid
\* summary; a run in which a generation call raises or gives an invalid summary
\* ends at once, thrown, with nothing posted.
C27_AllOrNothing ==
    /\ Ops("post") # {} =>
           /\ Len(summaries) = Len(articles)
           /\ \A k \in DOMAIN articles : AtRes("gen", k, "valid") # {}
    /\ GenerationFailed =>
           /\ Ops("post") = {} /\ channel = <<>>
           /\ pc = "done" /\ outcome = "thrown"

C27_Witness ==
    /\ pc = "done"
    /\ Len(articles) = 2
    /\ AtRes("gen", 1, "valid") # {}
    /\ AtRes("gen", 2, "invalid") # {}
    /\ channel = <<>>

\* C28: every fetched article has at most one generation call, at most one
\* post attempt and at most one accepted post, and the accepted article posts
\* appear in the channel in fetch order.
C28_AtMostOnceInOrder ==
    /\ \A k \in DOMAIN articles :
           /\ Cardinality(At("gen", k)) <= 1
           /\ Cardinality(At("post", k)) <= 1
           /\ Cardinality(Delivered(k)) <= 1
    /\ \A m \in DOMAIN channel : \A n \in DOMAIN channel :
           (m < n /\ channel[m].kind = "article" /\ channel[n].kind = "article") =>
               /\ channel[m].art < channel[n].art
               /\ channel[n].art \in DOMAIN articles

C28_Witness ==
    /\ pc = "done"
    /\ outcome = "returned"
    /\ Len(articles) = MaxLimit
    /\ Len(channel) = MaxLimit
    /\ Skipped(1)

----------------------------------------------------------------------------
(* C24: the comment window *)

\* the comment at position p of the reply IDs has a text and is neither deleted nor dead
LiveComment(p) ==
    /\ kids[p].code = 200 /\ kids[p].json
    /\ kids[p].text # 0 /\ ~kids[p].deleted /\ ~kids[p].dead

\* the live comments among the first n reply IDs, in source order
LiveAmong(n) == SelectSeq([p \in 1 .. n |-> p], LiveComment)

\* C24: the replies requested so far are the first cpos - 1 reply IDs, all
\* within the first 2 * maxComments; each was requested while fewer than
\* maxComments comments were kept; the kept comments are the live ones among
\* the requested, in source order; the function returns when maxComments are
\* kept or the window is used up.
C24_CommentWindow ==
    /\ cpos - 1 <= Min(Len(kids), 2 * maxComments)
    /\ cpos > 1 => Len(LiveAmong(cpos - 2)) < maxComments
    /\ comments = LiveAmong(cpos - 1)
    /\ cpc = "returned" =>
           (Len(comments) = maxComments \/ cpos - 1 = Min(Len(kids), 2 * maxComments))

C24_Witness ==
    /\ cpc = "returned"
    /\ maxComments = 2
    /\ Len(kids) > 2 * maxComments
    /\ cpos - 1 = 2 * maxComments
    /\ Len(comments) < maxComments

----------------------------------------------------------------------------
(* C25: classification of a 200 answer *)

Spaces(n) == [k \in 1 .. n |-> " "]

\* t is s without its leading and trailing spaces
IsTrimOf(t, s) ==
    /\ t = <<>> \/ (t[1] # " " /\ t[Len(t)] # " ")
    /\ \E a \in 0 .. Len(s) : \E b \in 0 .. Len(s) : s = Spaces(a) \o t \o Spaces(b)

\* C25: for a parsable 200 answer the call returns; the text is the
\* safety-blocked sentinel when the finish reason is SAFETY, whatever the output
\* text; else the generation-failed sentinel when there is no output text;
\* else the output text, trimmed by generateSingleArticleSummary.
C25_ClassificationOrder ==
    (ret # <<>> /\ arg.response.sent /\ arg.response.code = 200 /\ arg.response.json) =>
        /\ ~ret[1].threw
        /\ IF arg.response.finishReason = "SAFETY"
           THEN ret[1].text = SAFETY_BLOCKED
           ELSE IF ~arg.response.hasText \/ Len(arg.response.text) = 0
           THEN ret[1].text = GENERATION_FAILED
           ELSE IF arg.fn = "generateSingleArticleSummary"
           THEN IsTrimOf(ret[1].text, arg.response.text)
           ELSE ret[1].text = arg.response.text

C25_Witness ==
    /\ ret # <<>>
    /\ arg.fn = "generateSingleArticleSummary"
    /\ arg.response.sent /\ arg.response.code = 200 /\ arg.response.json
    /\ arg.response.finishReason = "SAFETY"
    /\ arg.response.hasText /\ arg.response.text = <<" ", "a", " ">>
    /\ ret[1].text = SAFETY_BLOCKED

----------------------------------------------------------------------------
(* C21: failures inside the per-article handling *)

\* the handling of article k failed: its generation call or its post raised
Failed(k) == AtRes("gen", k, "error") # {} \/ AtRes("post", k, "error") # {}

\* C21: a failure in the handling of an article, and of whatever is posted
\* about it, stays inside that handling: main does not throw and the next
\* article is still processed.
C21_NextArticleStillProcessed ==
    \A k \in DOMAIN articles :
        (pc = "done" /\ Failed(k) /\ k < Len(articles)) =>
            (outcome # "thrown" /\ At("gen", k + 1) # {})

----------------------------------------------------------------------------
(* C26: the timestamp of an article post *)

----------------------------------------------------------------------------
(* C29: a whole run of main with the comment requests of each story *)

\* item.kids of a fetched story: none, more live replies than the window
\* holds, or a window that starts with dead replies
RunKidLists ==
    { <<>>,
      [p \in 1 .. LongKids |-> OkComment(p)],
      [p \in 1 .. LongKids |-> IF p <= DEFAULT_MAX_COMMENTS + 1
                                THEN Comment(200, TRUE, p, FALSE, TRUE) ELSE OkComment(p)] }

\* ARTICLE_COUNT settings of these runs: unset, or not a number
RunProps == {p \in Props : p.kind \in {"unset", "text"}}

\* upstreams of these runs: the item ranked first varies, the others are valid stories
RunUpstreams == {u \in Upstreams : \A r \in 2 .. MaxVar : u.items[r] = OkItem(r)}

InitRun ==
    /\ prop \in RunProps
    /\ upstream \in RunUpstreams
    /\ pc = "start"
    /\ idx = 1
    /\ articles = <<>>
    /\ summaries = <<>>
    /\ i = 1
    /\ log = <<>>
    /\ channel = <<>>
    /\ outcome = "running"
    /\ result = <<>>
    /\ AuxIdle

\* fetchHackerNews: one iteration of the loop over targetStoryIds, up to the
\* call of fetchCommentsForStory(item.kids) inside fetchStoryDetails
FetchStoryBegin ==
    /\ pc = "items"
    /\ idx <= Len(targetStoryIds)
    /\ ~GreaterEq(Len(articles), ARTICLE_COUNT)
    /\ IF IsNull(fetchStoryDetails(targetStoryIds[idx]))
       THEN /\ log' = Append(log, Event("item", targetStoryIds[idx], "null", 0))
            /\ idx' = idx + 1
            /\ UNCHANGED <<pc, commentVars>>
       ELSE /\ kids' \in RunKidLists
            /\ maxComments' = DEFAULT_MAX_COMMENTS
            /\ cpos' = 1
            /\ comments' = <<>>
            /\ cpc' = "loop"
            /\ pc' = "comments"
            /\ UNCHANGED <<idx, log>>
    /\ UNCHANGED <<prop, upstream, articles, summaries, i, channel, outcome, result>>
    /\ UNCHANGED callVars

\* fetchStoryDetails returns the article once fetchCommentsForStory has returned
FetchStoryEnd ==
    /\ pc = "comments"
    /\ cpc = "returned"
    /\ log' = Append(log, Event("item", targetStoryIds[idx], "ok", 0))
    /\ articles' = Append(articles, fetchStoryDetails(targetStoryIds[idx]))
    /\ idx' = idx + 1
    /\ pc' = "items"
    /\ kids' = <<>>
    /\ maxComments' = 0
    /\ cpos' = 1
    /\ comments' = <<>>
    /\ cpc' = "idle"
    /\ UNCHANGED <<prop, upstream, summaries, i, channel, outcome, result>>
    /\ UNCHANGED callVars

NextRun ==
    \/ FetchIds
    \/ FetchStoryBegin
    \/ FetchComment
    \/ CommentsReturn
    \/ FetchStoryEnd
    \/ FetchReturn
    \/ NoNewsFound
    \/ Summarize
    \/ GenSleep
    \/ Post
    \/ PostSleep
    \/ MainReturn

\* every remote call and every sleep returns
SpecRun == InitRun /\ [][NextRun]_vars /\ WF_vars(NextRun)

\* the remote calls made so far stay within their bounds
BoundedCalls ==
    /\ Cardinality(Ops("ids")) <= 1
    /\ Cardinality(Ops("item")) + (IF pc = "comments" THEN 1 ELSE 0) <= MAX_STORY_IDS_TO_PROCESS
    /\ cpos - 1 <= 2 * DEFAULT_MAX_COMMENTS
    /\ Cardinality(Ops("gen")) <= Len(articles)
    /\ Cardinality(Ops("post")) <= Len(articles)
    /\ \A k \in DOMAIN articles : Cardinality(At("gen", k)) <= 1 /\ Cardinality(At("post", k)) <= 1

\* C29: when every remote call returns, the run of main ends, and at every
\* moment it has made at most one ID-list request, at most 30 item requests,
\* at most 20 comment requests for the story being fetched, and at most one
\* generation call and one article post per article.
C29_TerminatesWithBoundedCalls == <>(pc = "done") /\ []BoundedCalls

C29_Witness ==
    /\ pc = "done"
    /\ outcome = "returned"
    /\ Cardinality(Ops("item")) = MAX_STORY_IDS_TO_PROCESS
    /\ Cardinality(Ops("post")) = MAX_STORY_IDS_TO_PROCESS - 1

====
